---- MODULE Spec2Model ----
(***************************************************************************)
(* Isothetic polygon authoring and intersection (ngnsr/cg_lab).            *)
(*                                                                         *)
(* GridView (src/grid.py) is modelled as a state machine over its polygon  *)
(* management fields, the earlier GridView of src/main.py as a second      *)
(* state machine over the same fields, clip_polygon (src/utils.py) as a    *)
(* loop over the clip edges.  Coordinates are modelled as integers         *)
(* counting halves of the isothetic tolerance 0.001, so the tolerance      *)
(* itself is Eps = 2 units and two points can lie closer than it without   *)
(* being equal.  The intersection engine and clip_polygon use no tolerance *)
(* of that size, and their results do not depend on the unit.              *)
(* A point is a pair <<x, y>>.                                             *)
(*                                                                         *)
(* notice is the message of the last operation's invalid_action signal     *)
(* ("none" when it emitted nothing), ret what the last operation returned  *)
(* or raised.  rects and trace hold the result of the last call of         *)
(* compute_all_polygons_intersection and the polygons it folded in.        *)
(***************************************************************************)
EXTENDS Integers, Sequences, FiniteSets, TLC

VARIABLES polygon_points, current_polygon, point_items, completed_polygons,
          intersection_polygons, notice, ret, rects, trace

gvars == <<polygon_points, current_polygon, point_items, completed_polygons,
           intersection_polygons, notice, ret, rects, trace>>

(* clip_polygon (src/utils.py): its arguments, its locals and its control  *)
(* position                                                                *)
VARIABLES subject_polygon, clip_poly, output_list, input_list, ci, cpc, cret

cvars == <<subject_polygon, clip_poly, output_list, input_list, ci, cpc, cret>>

(* Which GridView class the view object is an instance of: the one of       *)
(* src/grid.py ("grid") or the earlier one of src/main.py ("main").        *)
VARIABLE view

vars == <<gvars, cvars, view>>

----------------------------------------------------------------------------
(* Bounds of the model: MaxFold is the longest polygon collection handed   *)
(* to the engine, MaxCell the number of grid steps spanned by the          *)
(* rectangles handed to clip_polygon.                                      *)

(* The most vertices the view holds at a time, in the polygon being drawn   *)
(* and in the completed ones together; add_polygon_point is not taken past *)
(* it.                                                                     *)
MaxVertices == 5

MaxFold == 3

MaxCell == 3

(* The tolerance 0.001 of is_isothetic_direction and finalize_polygon, in  *)
(* coordinate units.                                                       *)
Eps == 2

(* The grid points offered to add_polygon_point: a step along each axis,   *)
(* and points one tolerance away from them.                                *)
CandidatePoints == {<<0, 0>>, <<0, 4>>, <<2, 4>>, <<2, 2>>}

(* The points offered to add_polygon_point of src/main.py: a step up, and  *)
(* points half a tolerance and one tolerance to the right of the start and *)
(* of the step.                                                            *)
CandidatePointsMain == {<<0, 0>>, <<1, 0>>, <<0, 4>>, <<1, 4>>, <<2, 4>>}

----------------------------------------------------------------------------
(* Small helpers *)

Abs(n) == IF n < 0 THEN -n ELSE n

Min2(a, b) == IF a <= b THEN a ELSE b

Max2(a, b) == IF a >= b THEN a ELSE b

SetMin(S) == CHOOSE m \in S : \A n \in S : m <= n

SetMax(S) == CHOOSE m \in S : \A n \in S : m >= n

Range(s) == {s[k] : k \in DOMAIN s}

(* s[:-1] *)
ButLast(s) == SubSeq(s, 1, Len(s) - 1)

(* The absent graphics item (Python None), and a polygon item of the scene. *)
(* What an item draws is not part of the model, only whether there is one. *)
None == "None"

Item == "QGraphicsPolygonItem"

----------------------------------------------------------------------------
(* GridView authoring (src/grid.py) *)

is_isothetic_direction(last_point, new_point) ==
    \/ Abs(last_point[1] - new_point[1]) < Eps
    \/ Abs(last_point[2] - new_point[2]) < Eps

(* update_polygon: the in-progress item after a refresh of the drawing *)
update_polygon(points) == IF Len(points) >= 2 THEN Item ELSE None

(* The vertices held by a list of completed polygons *)
RECURSIVE VerticesIn(_)
VerticesIn(polys) ==
    IF polys = <<>> THEN 0 ELSE Len(polys[1].points) + VerticesIn(Tail(polys))

add_polygon_point(x, y) ==
    LET new_point == <<x, y>> IN
    /\ UNCHANGED <<cvars, view>>
    /\ Len(polygon_points) + VerticesIn(completed_polygons) < MaxVertices
    /\ IF /\ polygon_points # <<>>
          /\ ~is_isothetic_direction(polygon_points[Len(polygon_points)], new_point)
       THEN /\ notice' = "Invalid point: not horizontal or vertical from last point"
            /\ ret' = "False"
            /\ UNCHANGED <<polygon_points, current_polygon, point_items>>
       ELSE /\ polygon_points' = Append(polygon_points, new_point)
            /\ point_items' = Append(point_items, new_point)
            /\ current_polygon' = update_polygon(polygon_points')
            /\ notice' = "none"
            /\ ret' = "True"
    /\ UNCHANGED <<completed_polygons, intersection_polygons, rects, trace>>

(* remove_last_point that, with no point in progress, takes the last       *)
(* vertex off the most recently completed ring                             *)
remove_last_point_reaching_back ==
    /\ UNCHANGED <<cvars, view>>
    /\ notice' = "none"
    /\ ret' = "None"
    /\ UNCHANGED <<intersection_polygons, rects, trace>>
    /\ IF polygon_points # <<>>
       THEN /\ polygon_points' = ButLast(polygon_points)
            /\ point_items' = IF point_items # <<>> THEN ButLast(point_items)
                                                    ELSE point_items
            /\ current_polygon' = update_polygon(polygon_points')
            /\ UNCHANGED completed_polygons
       ELSE /\ UNCHANGED <<polygon_points, current_polygon, point_items>>
            /\ completed_polygons' =
                 IF completed_polygons # <<>>
                 THEN [completed_polygons EXCEPT
                         ![Len(completed_polygons)].points = ButLast(@)]
                 ELSE completed_polygons

remove_last_point ==
    /\ UNCHANGED <<cvars, view>>
    /\ IF polygon_points # <<>>
       THEN /\ polygon_points' = ButLast(polygon_points)
            /\ point_items' = IF point_items # <<>> THEN ButLast(point_items)
                                                    ELSE point_items
            /\ current_polygon' = update_polygon(polygon_points')
       ELSE UNCHANGED <<polygon_points, current_polygon, point_items>>
    /\ notice' = "none"
    /\ ret' = "None"
    /\ UNCHANGED <<completed_polygons, intersection_polygons, rects, trace>>

(* finalize_not_closed with every list of points taken as closed *)
finalize_never_open(points) == FALSE

(* The closing test of finalize_polygon: the last point must match the     *)
(* starting point.                                                         *)
finalize_not_closed(points) ==
    LET start_point == points[1]
        last_point == points[Len(points)]
    IN  \/ Abs(start_point[1] - last_point[1]) > Eps
        \/ Abs(start_point[2] - last_point[2]) > Eps

(* completed_points_of keeping the closing vertex *)
completed_points_all(points) == points

(* The vertex list finalize_polygon stores for the authored points *)
completed_points_of(points) == ButLast(points)

finalize_polygon ==
    /\ UNCHANGED <<cvars, view>>
    /\ ret' = "None"
    /\ UNCHANGED <<intersection_polygons, rects, trace>>
    /\ IF Len(polygon_points) < 3
       THEN /\ notice' = "Polygon must have at least 3 points"
            /\ UNCHANGED <<polygon_points, current_polygon, point_items,
                           completed_polygons>>
       ELSE IF finalize_not_closed(polygon_points)
       THEN /\ notice' = "Polygon must be closed by selecting the starting point"
            /\ UNCHANGED <<polygon_points, current_polygon, point_items,
                           completed_polygons>>
       ELSE /\ completed_polygons' =
                 IF current_polygon # None
                 THEN Append(completed_polygons,
                             [points |-> completed_points_of(polygon_points),
                              polygon |-> current_polygon])
                 ELSE completed_polygons
            /\ point_items' = <<>>
            /\ polygon_points' = <<>>
            /\ current_polygon' = update_polygon(<<>>)
            /\ notice' = "none"

(* remove_polygon that drops the stored intersection with the completed    *)
(* polygon it removes                                                      *)
remove_polygon_clearing ==
    /\ UNCHANGED <<cvars, view>>
    /\ notice' = "none"
    /\ ret' = "None"
    /\ UNCHANGED <<rects, trace>>
    /\ IF polygon_points # <<>>
       THEN /\ point_items' = <<>>
            /\ current_polygon' = None
            /\ polygon_points' = <<>>
            /\ UNCHANGED <<completed_polygons, intersection_polygons>>
       ELSE IF completed_polygons # <<>>
       THEN /\ completed_polygons' = ButLast(completed_polygons)
            /\ intersection_polygons' = {}
            /\ UNCHANGED <<polygon_points, current_polygon, point_items>>
       ELSE UNCHANGED <<polygon_points, current_polygon, point_items,
                        completed_polygons, intersection_polygons>>

remove_polygon ==
    /\ UNCHANGED <<cvars, view>>
    /\ notice' = "none"
    /\ ret' = "None"
    /\ UNCHANGED <<intersection_polygons, rects, trace>>
    /\ IF polygon_points # <<>>
       THEN /\ point_items' = <<>>
            /\ current_polygon' = None
            /\ polygon_points' = <<>>
            /\ UNCHANGED completed_polygons
       ELSE IF completed_polygons # <<>>
       THEN /\ completed_polygons' = ButLast(completed_polygons)
            /\ UNCHANGED <<polygon_points, current_polygon, point_items>>
       ELSE UNCHANGED <<polygon_points, current_polygon, point_items,
                        completed_polygons>>

----------------------------------------------------------------------------
(* GridView authoring in src/main.py, the earlier class of the same name.  *)
(* Its is_isothetic_direction, update_polygon and remove_last_point are    *)
(* those of src/grid.py word for word; it has no invalid_action signal, no *)
(* stored intersection and no import, and a polygon is finalized by        *)
(* add_polygon_point itself when the candidate closes the ring.            *)

(* is_polygon_closed that asks for the starting point itself *)
is_polygon_closed_exact(points, new_point) ==
    IF Len(points) >= 3 THEN points[1] = new_point ELSE FALSE

is_polygon_closed(points, new_point) ==
    IF Len(points) >= 3
    THEN LET start_point == points[1]
         IN  /\ Abs(start_point[1] - new_point[1]) < Eps
             /\ Abs(start_point[2] - new_point[2]) < Eps
    ELSE FALSE

(* is_valid_isothetic_polygon without the edge from the last point back   *)
(* to the first                                                            *)
is_valid_isothetic_polygon_open(points) ==
    IF Len(points) < 4 THEN FALSE
    ELSE \A i \in 1..(Len(points) - 1) :
            is_isothetic_direction(points[i], points[i + 1])

is_valid_isothetic_polygon(points) ==
    IF Len(points) < 4 THEN FALSE
    ELSE \A i \in 1..Len(points) :
            is_isothetic_direction(points[i], points[(i % Len(points)) + 1])

(* main_add_polygon_point that commits the candidate without looking at    *)
(* the direction from the last point                                       *)
main_add_polygon_point_any(x, y) ==
    LET new_point == <<x, y>> IN
    /\ UNCHANGED <<cvars, view>>
    /\ Len(polygon_points) + VerticesIn(completed_polygons) < MaxVertices
    /\ notice' = "none"
    /\ UNCHANGED <<intersection_polygons, rects, trace>>
    /\ polygon_points' = Append(polygon_points, new_point)
    /\ point_items' = Append(point_items, new_point)
    /\ current_polygon' = update_polygon(polygon_points')
    /\ ret' = "True"
    /\ UNCHANGED completed_polygons

(* add_polygon_point of src/main.py, the call of finalize_polygon included *)
main_add_polygon_point(x, y) ==
    LET new_point == <<x, y>> IN
    /\ UNCHANGED <<cvars, view>>
    /\ Len(polygon_points) + VerticesIn(completed_polygons) < MaxVertices
    /\ notice' = "none"
    /\ UNCHANGED <<intersection_polygons, rects, trace>>
    /\ IF /\ polygon_points # <<>>
          /\ ~is_isothetic_direction(polygon_points[Len(polygon_points)], new_point)
       THEN /\ ret' = "False"
            /\ UNCHANGED <<polygon_points, current_polygon, point_items,
                           completed_polygons>>
       ELSE IF polygon_points # <<>> /\ is_polygon_closed(polygon_points, new_point)
       THEN IF is_valid_isothetic_polygon(polygon_points)
            THEN /\ completed_polygons' =
                        Append(completed_polygons,
                               [points |-> polygon_points,
                                polygon |-> current_polygon])
                 /\ current_polygon' = None
                 /\ polygon_points' = <<>>
                 /\ point_items' = <<>>
                 /\ ret' = "True"
            ELSE /\ ret' = "False"
                 /\ UNCHANGED <<polygon_points, current_polygon, point_items,
                                completed_polygons>>
       ELSE /\ polygon_points' = Append(polygon_points, new_point)
            /\ point_items' = Append(point_items, new_point)
            /\ current_polygon' = update_polygon(polygon_points')
            /\ ret' = "True"
            /\ UNCHANGED completed_polygons

(* A call of is_valid_isothetic_polygon on the points authored so far *)
main_is_valid_isothetic_polygon ==
    /\ UNCHANGED <<cvars, view>>
    /\ ret' = IF is_valid_isothetic_polygon(polygon_points) THEN "True" ELSE "False"
    /\ notice' = "none"
    /\ UNCHANGED <<polygon_points, current_polygon, point_items,
                   completed_polygons, intersection_polygons, rects, trace>>

(* main_remove_polygon that, with a polygon in progress, also takes the    *)
(* last completed polygon away                                             *)
main_remove_polygon_both ==
    /\ UNCHANGED <<cvars, view>>
    /\ notice' = "none"
    /\ ret' = "None"
    /\ UNCHANGED <<intersection_polygons, rects, trace>>
    /\ IF polygon_points # <<>>
       THEN /\ point_items' = <<>>
            /\ current_polygon' = None
            /\ polygon_points' = <<>>
            /\ completed_polygons' = ButLast(completed_polygons)
       ELSE IF completed_polygons # <<>>
       THEN /\ completed_polygons' = ButLast(completed_polygons)
            /\ UNCHANGED <<polygon_points, current_polygon, point_items>>
       ELSE UNCHANGED <<polygon_points, current_polygon, point_items,
                        completed_polygons>>

main_remove_polygon ==
    /\ UNCHANGED <<cvars, view>>
    /\ notice' = "none"
    /\ ret' = "None"
    /\ UNCHANGED <<intersection_polygons, rects, trace>>
    /\ IF polygon_points # <<>>
       THEN /\ point_items' = <<>>
            /\ current_polygon' = None
            /\ polygon_points' = <<>>
            /\ UNCHANGED completed_polygons
       ELSE IF completed_polygons # <<>>
       THEN /\ completed_polygons' = ButLast(completed_polygons)
            /\ UNCHANGED <<polygon_points, current_polygon, point_items>>
       ELSE UNCHANGED <<polygon_points, current_polygon, point_items,
                        completed_polygons>>

----------------------------------------------------------------------------
(* Intersection engine.  A rectangle is a record of its four sides.  The   *)
(* centroid of a cell has half-integer coordinates, so sample points are   *)
(* passed with both coordinates doubled.                                   *)

Rect(x1, y1, x2, y2) == [left |-> x1, top |-> y1, right |-> x2, bottom |-> y2]

(* Even-odd ray casting.  An edge toggles when exactly one endpoint lies   *)
(* above the sample and the sample is left of the edge's x-intercept; the  *)
(* comparison px < xi + (py - yi) * (xj - xi) / (yj - yi) is cleared of    *)
(* its division.                                                           *)
EdgeToggles(px2, py2, a, b) ==
    LET d == b[2] - a[2]
        lhs == (px2 - 2 * a[1]) * d
        rhs == (py2 - 2 * a[2]) * (b[1] - a[1])
    IN  /\ (2 * a[2] > py2) # (2 * b[2] > py2)
        /\ IF d > 0 THEN lhs < rhs ELSE lhs > rhs

pointInPolygon(px2, py2, ring) ==
    LET n == Len(ring)
        toggles == {i \in 1..n : EdgeToggles(px2, py2, ring[i], ring[(i % n) + 1])}
    IN  Cardinality(toggles) % 2 = 1

(* Adjacent with every ordered pair of coordinates, neighbours or not *)
AllOrderedPairs(S) == {pr \in S \X S : pr[1] < pr[2]}

(* Pairs of neighbouring values of a set of coordinates *)
Adjacent(S) == {pr \in S \X S : /\ pr[1] < pr[2]
                                /\ ~\E c \in S : pr[1] < c /\ c < pr[2]}

(* grid_based_intersection_qt with the grid lines of the first polygon    *)
(* only                                                                    *)
grid_based_intersection_first_lines(A, B) ==
    IF Len(A) < 3 \/ Len(B) < 3 THEN {}
    ELSE LET xs == {p[1] : p \in Range(A)}
             ys == {p[2] : p \in Range(A)}
             cells == {Rect(cx[1], cy[1], cx[2], cy[2]) :
                          cx \in Adjacent(xs), cy \in Adjacent(ys)}
         IN  {c \in cells :
                /\ pointInPolygon(c.left + c.right, c.top + c.bottom, A)
                /\ pointInPolygon(c.left + c.right, c.top + c.bottom, B)}

grid_based_intersection_qt(A, B) ==
    IF Len(A) < 3 \/ Len(B) < 3 THEN {}
    ELSE LET xs == {p[1] : p \in Range(A) \cup Range(B)}
             ys == {p[2] : p \in Range(A) \cup Range(B)}
             cells == {Rect(cx[1], cy[1], cx[2], cy[2]) :
                          cx \in Adjacent(xs), cy \in Adjacent(ys)}
         IN  {c \in cells :
                /\ pointInPolygon(c.left + c.right, c.top + c.bottom, A)
                /\ pointInPolygon(c.left + c.right, c.top + c.bottom, B)}

(* The four-vertex polygon compute_all_polygons_intersection builds from a *)
(* rectangle                                                               *)
RectAsPolygon(rect) ==
    << <<rect.left, rect.top>>, <<rect.right, rect.top>>,
       <<rect.right, rect.bottom>>, <<rect.left, rect.bottom>> >>

(* FoldStep with the later polygons not filtering the running set *)
FoldStepKeepAll(polys, i, intersection_rects) ==
    IF i = 1
    THEN grid_based_intersection_qt(polys[1].points, polys[i + 1].points)
    ELSE intersection_rects

(* FoldStep with the first polygon intersected with itself *)
FoldStepBaseOnly(polys, i, intersection_rects) ==
    IF i = 1
    THEN grid_based_intersection_qt(polys[1].points, polys[1].points)
    ELSE {rect \in intersection_rects :
             grid_based_intersection_qt(RectAsPolygon(rect), polys[i + 1].points) # {}}

(* FoldStep with every rectangle of the running set replaced by the parts  *)
(* of it inside the next polygon                                           *)
FoldStepResplit(polys, i, intersection_rects) ==
    IF i = 1
    THEN grid_based_intersection_qt(polys[1].points, polys[i + 1].points)
    ELSE UNION {grid_based_intersection_qt(RectAsPolygon(rect), polys[i + 1].points) :
                   rect \in intersection_rects}

(* One pass of the loop body for polygon i (0-based, i >= 1) *)
FoldStep(polys, i, intersection_rects) ==
    LET next_poly == polys[i + 1].points IN
    IF i = 1
    THEN grid_based_intersection_qt(polys[1].points, next_poly)
    ELSE {rect \in intersection_rects :
             grid_based_intersection_qt(RectAsPolygon(rect), next_poly) # {}}

(* FoldFrom without the return on an empty running set *)
RECURSIVE FoldFromNoStop(_, _, _, _)
FoldFromNoStop(polys, i, intersection_rects, visited) ==
    IF i >= Len(polys) THEN [ret |-> intersection_rects, visited |-> visited]
    ELSE IF Len(polys[i + 1].points) < 3 THEN [ret |-> {}, visited |-> visited]
    ELSE LET r == FoldStep(polys, i, intersection_rects)
             v == Append(visited, [index |-> i, rects |-> r])
         IN  FoldFromNoStop(polys, i + 1, r, v)

(* The loop of compute_all_polygons_intersection from index i on.  visited *)
(* records, for every polygon folded in, its index and the running set     *)
(* left after it.                                                          *)
RECURSIVE FoldFrom(_, _, _, _)
FoldFrom(polys, i, intersection_rects, visited) ==
    IF i >= Len(polys) THEN [ret |-> intersection_rects, visited |-> visited]
    ELSE IF Len(polys[i + 1].points) < 3 THEN [ret |-> {}, visited |-> visited]
    ELSE LET r == FoldStep(polys, i, intersection_rects)
             v == Append(visited, [index |-> i, rects |-> r])
         IN  IF r = {} THEN [ret |-> {}, visited |-> v]
             ELSE FoldFrom(polys, i + 1, r, v)

compute_all_polygons_intersection_run(polys) ==
    IF Len(polys) < 2 THEN [ret |-> {}, visited |-> <<>>]
    ELSE IF Len(polys[1].points) < 3 THEN [ret |-> {}, visited |-> <<>>]
    ELSE FoldFrom(polys, 1, {}, <<>>)

RectItem(rect) == [kind |-> "rect", shape |-> RectAsPolygon(rect)]

PolygonItem(points) == [kind |-> "polygon", shape |-> points]

(* compute_all_polygons_intersection that also replaces the stored        *)
(* intersection items by its result                                        *)
compute_all_polygons_intersection_storing ==
    LET run == compute_all_polygons_intersection_run(completed_polygons) IN
    /\ UNCHANGED <<cvars, view>>
    /\ rects' = run.ret
    /\ trace' = run.visited
    /\ notice' = "none"
    /\ ret' = "None"
    /\ intersection_polygons' = {[kind |-> "rect", shape |-> RectAsPolygon(rect)] :
                                    rect \in run.ret}
    /\ UNCHANGED <<polygon_points, current_polygon, point_items,
                   completed_polygons>>

compute_all_polygons_intersection ==
    LET run == compute_all_polygons_intersection_run(completed_polygons) IN
    /\ UNCHANGED <<cvars, view>>
    /\ rects' = run.ret
    /\ trace' = run.visited
    /\ notice' = "none"
    /\ ret' = "None"
    /\ UNCHANGED <<polygon_points, current_polygon, point_items,
                   completed_polygons, intersection_polygons>>

(* calculate_intersection asking for one polygon only *)
calculate_intersection_one ==
    /\ UNCHANGED <<cvars, view>>
    /\ ret' = "None"
    /\ UNCHANGED <<polygon_points, current_polygon, point_items,
                   completed_polygons, rects, trace>>
    /\ IF Len(completed_polygons) < 1
       THEN /\ notice' = "Need at least two polygons to calculate intersection"
            /\ UNCHANGED intersection_polygons
       ELSE LET intersection_rects ==
                    compute_all_polygons_intersection_run(completed_polygons).ret
            IN  IF intersection_rects # {}
                THEN /\ intersection_polygons' =
                            {RectItem(rect) : rect \in intersection_rects}
                     /\ notice' = "Grid-based intersection calculated"
                ELSE /\ intersection_polygons' = {}
                     /\ notice' = "No common intersection found"

calculate_intersection ==
    /\ UNCHANGED <<cvars, view>>
    /\ ret' = "None"
    /\ UNCHANGED <<polygon_points, current_polygon, point_items,
                   completed_polygons, rects, trace>>
    /\ IF Len(completed_polygons) < 2
       THEN /\ notice' = "Need at least two polygons to calculate intersection"
            /\ UNCHANGED intersection_polygons
       ELSE LET intersection_rects ==
                    compute_all_polygons_intersection_run(completed_polygons).ret
            IN  IF intersection_rects # {}
                THEN /\ intersection_polygons' =
                            {RectItem(rect) : rect \in intersection_rects}
                     /\ notice' = "Grid-based intersection calculated"
                ELSE /\ intersection_polygons' = {}
                     /\ notice' = "No common intersection found"

----------------------------------------------------------------------------
(* Boundary clipping (src/utils.py).  The tolerances 1e-10 of the source   *)
(* separate zero from non-zero on integer coordinates.  The rings clipped  *)
(* here are isothetic, so every intersection point has integer coordinates *)
(* and the divisions below are exact.                                      *)

(* compute_intersection returning None *)
NoPoint == <<>>

(* list.index: position of the first occurrence *)
IndexOf(s, v) == SetMin({k \in 1..Len(s) : s[k] = v})

WithinBounds(point, ring) ==
    LET x_bounds == {v[1] : v \in Range(ring)}
        y_bounds == {v[2] : v \in Range(ring)}
    IN  /\ SetMin(x_bounds) <= point[1] /\ point[1] <= SetMax(x_bounds)
        /\ SetMin(y_bounds) <= point[2] /\ point[2] <= SetMax(y_bounds)

is_inside(point, edge_start, edge_end, clip) ==
    LET dx == edge_end[1] - edge_start[1]
        dy == edge_end[2] - edge_start[2]
        px == point[1] - edge_start[1]
        py == point[2] - edge_start[2]
        next_point == clip[(IndexOf(clip, edge_end) % Len(clip)) + 1]
        next_dx == next_point[1] - edge_end[1]
        next_dy == next_point[2] - edge_end[2]
        cross == dx * next_dy - dy * next_dx
        cross_point == dx * py - dy * px
    IN  IF cross = 0
        THEN WithinBounds(point, <<edge_start, edge_end>>)
        ELSE /\ IF cross > 0 THEN cross_point >= 0 ELSE cross_point <= 0
             /\ WithinBounds(point, clip)

(* 0 <= num / den <= 1 *)
InUnitInterval(num, den) ==
    IF den > 0 THEN 0 <= num /\ num <= den ELSE den <= num /\ num <= 0

compute_intersection(p1, p2, edge_start, edge_end) ==
    LET dx == p2[1] - p1[1]
        dy == p2[2] - p1[2]
        edx == edge_end[1] - edge_start[1]
        edy == edge_end[2] - edge_start[2]
        denom == dx * edy - dy * edx
        tnum == (edge_start[1] - p1[1]) * edy - (edge_start[2] - p1[2]) * edx
        snum == (edge_start[1] - p1[1]) * dy - (edge_start[2] - p1[2]) * dx
    IN  IF denom = 0 THEN NoPoint
        ELSE IF InUnitInterval(tnum, denom) /\ InUnitInterval(snum, denom)
        THEN <<p1[1] + (tnum * dx) \div denom, p1[2] + (tnum * dy) \div denom>>
        ELSE NoPoint

(* EdgeOutput that, for an edge entering, appends Q before the             *)
(* intersection point                                                      *)
EdgeOutputQFirst(P, Q, A, B, clip) ==
    LET inside_p == is_inside(P, A, B, clip)
        inside_q == is_inside(Q, A, B, clip)
        intersection == compute_intersection(P, Q, A, B)
        found == IF intersection # NoPoint THEN <<intersection>> ELSE <<>>
    IN  IF inside_p /\ inside_q THEN <<Q>>
        ELSE IF inside_p /\ ~inside_q THEN found
        ELSE IF ~inside_p /\ inside_q THEN <<Q>> \o found
        ELSE <<>>

(* What the edge (P, Q) of the input list appends to the output list *)
EdgeOutput(P, Q, A, B, clip) ==
    LET inside_p == is_inside(P, A, B, clip)
        inside_q == is_inside(Q, A, B, clip)
        intersection == compute_intersection(P, Q, A, B)
        found == IF intersection # NoPoint THEN <<intersection>> ELSE <<>>
    IN  IF inside_p /\ inside_q THEN <<Q>>
        ELSE IF inside_p /\ ~inside_q THEN found
        ELSE IF ~inside_p /\ inside_q THEN found \o <<Q>>
        ELSE <<>>

(* The inner loop over j (1-based here) *)
RECURSIVE ClipAgainstEdge(_, _, _, _, _)
ClipAgainstEdge(input, j, A, B, clip) ==
    IF j > Len(input) THEN <<>>
    ELSE EdgeOutput(input[j], input[(j % Len(input)) + 1], A, B, clip)
            \o ClipAgainstEdge(input, j + 1, A, B, clip)

(* The elements of s at the positions in keep, in order *)
Pick(s, keep) ==
    [k \in 1..Cardinality(keep) |->
        s[CHOOSE i \in keep : Cardinality({j \in keep : j <= i}) = k]]

(* Points outside the clip bounds dropped, then consecutive repeats *)
FilterOutput(out, clip) ==
    LET filtered_output == SelectSeq(out, LAMBDA p : WithinBounds(p, clip))
    IN  Pick(filtered_output,
             {i \in 1..Len(filtered_output) :
                 i = 1 \/ filtered_output[i] # filtered_output[i - 1]})

clip_start ==
    /\ cpc = "start"
    /\ IF Len(subject_polygon) < 3 \/ Len(clip_poly) < 3
       THEN /\ cpc' = "done"
            /\ cret' = <<>>
            /\ UNCHANGED <<output_list, ci>>
       ELSE /\ output_list' = subject_polygon
            /\ ci' = 0
            /\ cpc' = "loop"
            /\ UNCHANGED cret
    /\ UNCHANGED <<subject_polygon, clip_poly, input_list>>
    /\ UNCHANGED <<gvars, view>>

(* clip_edge that gives up as soon as fewer than 3 points are left *)
clip_edge_stop ==
    /\ cpc = "loop"
    /\ ci < Len(clip_poly)
    /\ LET A == clip_poly[ci + 1]
           B == clip_poly[((ci + 1) % Len(clip_poly)) + 1]
           out == FilterOutput(ClipAgainstEdge(output_list, 1, A, B, clip_poly), clip_poly)
       IN  /\ input_list' = output_list
           /\ output_list' = out
           /\ ci' = ci + 1
           /\ IF Len(out) < 3 /\ ci < Len(clip_poly) - 1
              THEN cpc' = "done" /\ cret' = <<>>
              ELSE UNCHANGED <<cpc, cret>>
    /\ UNCHANGED <<subject_polygon, clip_poly>>
    /\ UNCHANGED <<gvars, view>>

(* One pass of the loop over the clip edges, for edge i = ci *)
clip_edge ==
    /\ cpc = "loop"
    /\ ci < Len(clip_poly)
    /\ LET A == clip_poly[ci + 1]
           B == clip_poly[((ci + 1) % Len(clip_poly)) + 1]
       IN  /\ input_list' = output_list
           /\ output_list' =
                FilterOutput(ClipAgainstEdge(output_list, 1, A, B, clip_poly), clip_poly)
           /\ ci' = ci + 1
    /\ UNCHANGED <<subject_polygon, clip_poly, cpc, cret>>
    /\ UNCHANGED <<gvars, view>>

(* clip_return handing back the output list as it is, without the first    *)
(* point repeated at the end                                               *)
clip_return_open ==
    /\ cpc = "loop"
    /\ ci = Len(clip_poly)
    /\ cret' = IF Len(output_list) < 3 THEN <<>> ELSE output_list
    /\ cpc' = "done"
    /\ UNCHANGED <<subject_polygon, clip_poly, output_list, input_list, ci>>
    /\ UNCHANGED <<gvars, view>>

clip_return ==
    /\ cpc = "loop"
    /\ ci = Len(clip_poly)
    /\ cret' = IF Len(output_list) < 3 THEN <<>>
               ELSE IF output_list[Len(output_list)] # output_list[1]
               THEN Append(output_list, output_list[1])
               ELSE output_list
    /\ cpc' = "done"
    /\ UNCHANGED <<subject_polygon, clip_poly, output_list, input_list, ci>>
    /\ UNCHANGED <<gvars, view>>

----------------------------------------------------------------------------
(* Import (src/grid.py).  A file is a record: whether it parses as JSON,   *)
(* whether it is an object with a "polygons" key, and its two ring lists   *)
(* in file coordinates.                                                    *)

(* QPointF(p["x"], -p["y"]) *)
ImportPoint(p) == <<p[1], -p[2]>>

ImportRing(poly_points) == [k \in 1..Len(poly_points) |-> ImportPoint(poly_points[k])]

(* points[i - 1] for i = 0 is the last point *)
ImportRingRejected(poly_points) ==
    \/ Len(poly_points) < 3
    \/ LET points == ImportRing(poly_points)
           n == Len(points)
       IN  \E i \in 1..n :
              ~is_isothetic_direction(points[IF i = 1 THEN n ELSE i - 1], points[i])

(* Index of the first ring at which the loading loop raises, or one past   *)
(* the end                                                                 *)
FirstRejected(rings) ==
    LET bad == {k \in 1..Len(rings) : ImportRingRejected(rings[k])}
    IN  IF bad = {} THEN Len(rings) + 1 ELSE SetMin(bad)

(* import_polygons that adds the file's polygons to the completed ones     *)
(* instead of replacing them                                               *)
import_polygons_appending(file) ==
    /\ UNCHANGED <<cvars, view>>
    /\ UNCHANGED <<rects, trace>>
    /\ IF ~file.json_ok \/ ~file.has_polygons
       THEN /\ ret' = "ValueError"
            /\ notice' = "none"
            /\ UNCHANGED <<polygon_points, current_polygon, point_items,
                           completed_polygons, intersection_polygons>>
       ELSE LET kp == FirstRejected(file.polygons)
                ki == FirstRejected(file.intersection)
                loaded == [k \in 1..(kp - 1) |->
                             [points |-> ImportRing(file.polygons[k]),
                              polygon |-> Item]]
                inter == {PolygonItem(ImportRing(file.intersection[k])) :
                             k \in 1..(ki - 1)}
            IN  /\ polygon_points' = <<>>
                /\ point_items' = <<>>
                /\ current_polygon' = None
                /\ completed_polygons' = completed_polygons \o loaded
                /\ IF kp <= Len(file.polygons)
                   THEN /\ intersection_polygons' = {}
                        /\ ret' = "ValueError"
                        /\ notice' = "none"
                   ELSE /\ intersection_polygons' = inter
                        /\ IF ki <= Len(file.intersection)
                           THEN /\ ret' = "ValueError"
                                /\ notice' = "none"
                           ELSE /\ ret' = "None"
                                /\ notice' = IF inter # {}
                                             THEN "Imported polygons with intersection"
                                             ELSE "Imported polygons"

(* import_polygons that checks every polygon of the file before it clears *)
(* anything, and raises with the state as it was                          *)
import_polygons_atomic(file) ==
    /\ UNCHANGED <<cvars, view>>
    /\ UNCHANGED <<rects, trace>>
    /\ IF \/ ~file.json_ok \/ ~file.has_polygons
          \/ FirstRejected(file.polygons) <= Len(file.polygons)
       THEN /\ ret' = "ValueError"
            /\ notice' = "none"
            /\ UNCHANGED <<polygon_points, current_polygon, point_items,
                           completed_polygons, intersection_polygons>>
       ELSE LET kp == FirstRejected(file.polygons)
                ki == FirstRejected(file.intersection)
                loaded == [k \in 1..(kp - 1) |->
                             [points |-> ImportRing(file.polygons[k]),
                              polygon |-> Item]]
                inter == {PolygonItem(ImportRing(file.intersection[k])) :
                             k \in 1..(ki - 1)}
            IN  /\ polygon_points' = <<>>
                /\ point_items' = <<>>
                /\ current_polygon' = None
                /\ completed_polygons' = loaded
                /\ IF kp <= Len(file.polygons)
                   THEN /\ intersection_polygons' = {}
                        /\ ret' = "ValueError"
                        /\ notice' = "none"
                   ELSE /\ intersection_polygons' = inter
                        /\ IF ki <= Len(file.intersection)
                           THEN /\ ret' = "ValueError"
                                /\ notice' = "none"
                           ELSE /\ ret' = "None"
                                /\ notice' = IF inter # {}
                                             THEN "Imported polygons with intersection"
                                             ELSE "Imported polygons"

import_polygons(file) ==
    /\ UNCHANGED <<cvars, view>>
    /\ UNCHANGED <<rects, trace>>
    /\ IF ~file.json_ok \/ ~file.has_polygons
       THEN /\ ret' = "ValueError"
            /\ notice' = "none"
            /\ UNCHANGED <<polygon_points, current_polygon, point_items,
                           completed_polygons, intersection_polygons>>
       ELSE LET kp == FirstRejected(file.polygons)
                ki == FirstRejected(file.intersection)
                loaded == [k \in 1..(kp - 1) |->
                             [points |-> ImportRing(file.polygons[k]),
                              polygon |-> Item]]
                inter == {PolygonItem(ImportRing(file.intersection[k])) :
                             k \in 1..(ki - 1)}
            IN  /\ polygon_points' = <<>>
                /\ point_items' = <<>>
                /\ current_polygon' = None
                /\ completed_polygons' = loaded
                /\ IF kp <= Len(file.polygons)
                   THEN /\ intersection_polygons' = {}
                        /\ ret' = "ValueError"
                        /\ notice' = "none"
                   ELSE /\ intersection_polygons' = inter
                        /\ IF ki <= Len(file.intersection)
                           THEN /\ ret' = "ValueError"
                                /\ notice' = "none"
                           ELSE /\ ret' = "None"
                                /\ notice' = IF inter # {}
                                             THEN "Imported polygons with intersection"
                                             ELSE "Imported polygons"

(* Rings found in import files, in file coordinates (y is negated on load) *)
FileSquare == << <<0, 0>>, <<1, 0>>, <<1, -2>>, <<0, -2>> >>

FileSquare2 == << <<0, -1>>, <<2, -1>>, <<2, -3>>, <<0, -3>> >>

FileTwoPoints == << <<0, 0>>, <<1, 0>> >>

FileDiagonal == << <<0, 0>>, <<2, 0>>, <<2, -2>> >>

FileRepeated == << <<0, 0>>, <<1, 0>>, <<0, 0>> >>

File(ok, has, ps, is) ==
    [json_ok |-> ok, has_polygons |-> has, polygons |-> ps, intersection |-> is]

(* The files offered to import_polygons: unreadable ones, well-formed ones *)
(* with and without a stored intersection, and ones with a rejected ring   *)
(* at each position.                                                       *)
ImportFiles ==
    { File(FALSE, FALSE, <<>>, <<>>),
      File(TRUE, FALSE, <<>>, <<>>),
      File(TRUE, TRUE, <<>>, <<>>),
      File(TRUE, TRUE, <<FileSquare, FileSquare2>>, <<>>),
      File(TRUE, TRUE, <<FileSquare>>, <<FileSquare>>),
      File(TRUE, TRUE, <<FileRepeated>>, <<>>),
      File(TRUE, TRUE, <<FileSquare, FileTwoPoints>>, <<FileSquare>>),
      File(TRUE, TRUE, <<FileDiagonal, FileSquare>>, <<>>),
      File(TRUE, TRUE, <<FileSquare2>>, <<FileSquare, FileDiagonal>>) }

----------------------------------------------------------------------------
Init ==
    /\ polygon_points = <<>>
    /\ current_polygon = None
    /\ point_items = <<>>
    /\ completed_polygons = <<>>
    /\ intersection_polygons = {}
    /\ notice = "none"
    /\ ret = "None"
    /\ rects = {}
    /\ trace = <<>>
    /\ subject_polygon = <<>>
    /\ clip_poly = <<>>
    /\ output_list = <<>>
    /\ input_list = <<>>
    /\ ci = 0
    /\ cpc = "idle"
    /\ cret = <<>>
    /\ view = "grid"

Next ==
    \/ \E p \in CandidatePoints : add_polygon_point(p[1], p[2])
    \/ remove_last_point
    \/ finalize_polygon
    \/ remove_polygon
    \/ \E file \in ImportFiles : import_polygons(file)
    \/ calculate_intersection

Spec == Init /\ [][Next]_vars

----------------------------------------------------------------------------
(* The view of src/main.py *)

InitMain ==
    /\ polygon_points = <<>>
    /\ current_polygon = None
    /\ point_items = <<>>
    /\ completed_polygons = <<>>
    /\ intersection_polygons = {}
    /\ notice = "none"
    /\ ret = "None"
    /\ rects = {}
    /\ trace = <<>>
    /\ subject_polygon = <<>>
    /\ clip_poly = <<>>
    /\ output_list = <<>>
    /\ input_list = <<>>
    /\ ci = 0
    /\ cpc = "idle"
    /\ cret = <<>>
    /\ view = "main"

NextMain ==
    \/ \E p \in CandidatePointsMain : main_add_polygon_point(p[1], p[2])
    \/ remove_last_point
    \/ main_remove_polygon

SpecMain == InitMain /\ [][NextMain]_vars

(* is_valid_isothetic_polygon of src/main.py applied to point lists: it is *)
(* a function of the list alone, and is given every list over the         *)
(* candidate points up to the vertex bound.                                *)
RECURSIVE PointLists(_)
PointLists(n) ==
    IF n = 0 THEN {<<>>}
    ELSE LET shorter == PointLists(n - 1)
         IN  shorter \cup {Append(l, p) :
                              l \in {m \in shorter : Len(m) = n - 1},
                              p \in CandidatePoints}

InitRing ==
    /\ polygon_points \in PointLists(MaxVertices)
    /\ current_polygon = update_polygon(polygon_points)
    /\ point_items = polygon_points
    /\ completed_polygons = <<>>
    /\ intersection_polygons = {}
    /\ notice = "none"
    /\ ret = "None"
    /\ rects = {}
    /\ trace = <<>>
    /\ subject_polygon = <<>>
    /\ clip_poly = <<>>
    /\ output_list = <<>>
    /\ input_list = <<>>
    /\ ci = 0
    /\ cpc = "idle"
    /\ cret = <<>>
    /\ view = "main"

NextRing == main_is_valid_isothetic_polygon

SpecRing == InitRing /\ [][NextRing]_vars

(* A view of either class *)
InitViews == Init \/ InitMain

NextViews ==
    \/ view = "grid" /\ Next
    \/ view = "main" /\ NextMain

SpecViews == InitViews /\ [][NextViews]_vars

----------------------------------------------------------------------------
(* The engine applied to polygon collections.  The collections are those   *)
(* an import can leave behind, plus the two-vertex ring finalize_polygon   *)
(* can store.                                                              *)

RingA == << <<0, 0>>, <<4, 0>>, <<4, 4>>, <<0, 4>> >>

RingB == << <<2, 2>>, <<6, 2>>, <<6, 6>>, <<2, 6>> >>

RingC == << <<10, 10>>, <<12, 10>>, <<12, 12>>, <<10, 12>> >>

RingL == << <<0, 0>>, <<6, 0>>, <<6, 2>>, <<2, 2>>, <<2, 6>>, <<0, 6>> >>

RingWide == << <<3, 1>>, <<8, 1>>, <<8, 3>>, <<3, 3>> >>

RingTwo == << <<0, 0>>, <<4, 0>> >>

PolyLibrary == {RingA, RingB, RingC, RingL, RingWide, RingTwo}

Completed(ring) == [points |-> ring, polygon |-> Item]

RECURSIVE Collections(_)
Collections(n) ==
    IF n = 0 THEN {<<>>}
    ELSE LET shorter == Collections(n - 1)
         IN  shorter \cup {Append(c, Completed(r)) :
                              c \in {d \in shorter : Len(d) = n - 1}, r \in PolyLibrary}

InitFold ==
    /\ polygon_points = <<>>
    /\ current_polygon = None
    /\ point_items = <<>>
    /\ completed_polygons \in Collections(MaxFold)
    /\ intersection_polygons = {}
    /\ notice = "none"
    /\ ret = "None"
    /\ rects = {}
    /\ trace = <<>>
    /\ subject_polygon = <<>>
    /\ clip_poly = <<>>
    /\ output_list = <<>>
    /\ input_list = <<>>
    /\ ci = 0
    /\ cpc = "idle"
    /\ cret = <<>>
    /\ view = "grid"

NextFold ==
    \/ compute_all_polygons_intersection
    \/ calculate_intersection

SpecFold == InitFold /\ [][NextFold]_vars

----------------------------------------------------------------------------
(* clip_polygon applied to rectangles laid on a coarse grid and to a few   *)
(* clip rings                                                              *)

Rectangle(x1, y1, x2, y2) == << <<x1, y1>>, <<x2, y1>>, <<x2, y2>>, <<x1, y2>> >>

GridCoords == {2 * k : k \in 0..MaxCell}

Rectangles ==
    {Rectangle(cx[1], cy[1], cx[2], cy[2]) :
        cx \in {pr \in GridCoords \X GridCoords : pr[1] < pr[2]},
        cy \in {pr \in GridCoords \X GridCoords : pr[1] < pr[2]}}

Reverse(s) == [k \in 1..Len(s) |-> s[Len(s) + 1 - k]]

RingBig == Rectangle(0, 0, 6, 6)

(* RingBig with a vertex in the middle of its first edge *)
RingBigCollinear == << <<0, 0>>, <<2, 0>>, <<6, 0>>, <<6, 6>>, <<0, 6>> >>

Subjects == Rectangles \cup {RingTwo}

Clips == {RingA, RingB, Reverse(RingA), RingBig, RingBigCollinear, RingTwo}

InitClip ==
    /\ polygon_points = <<>>
    /\ current_polygon = None
    /\ point_items = <<>>
    /\ completed_polygons = <<>>
    /\ intersection_polygons = {}
    /\ notice = "none"
    /\ ret = "None"
    /\ rects = {}
    /\ trace = <<>>
    /\ subject_polygon \in Subjects
    /\ clip_poly \in Clips
    /\ output_list = <<>>
    /\ input_list = <<>>
    /\ ci = 0
    /\ cpc = "start"
    /\ cret = <<>>
    /\ view = "grid"

NextClip ==
    \/ clip_start
    \/ clip_edge
    \/ clip_return

SpecClip == InitClip /\ [][NextClip]_vars

----------------------------------------------------------------------------
(* The engine operations together: the fold over polygon collections, and  *)
(* clip_polygon followed by the fold over the squares A and B              *)

InitEngine ==
    /\ polygon_points = <<>>
    /\ current_polygon = None
    /\ point_items = <<>>
    /\ intersection_polygons = {}
    /\ notice = "none"
    /\ ret = "None"
    /\ rects = {}
    /\ trace = <<>>
    /\ output_list = <<>>
    /\ input_list = <<>>
    /\ ci = 0
    /\ cret = <<>>
    /\ view = "grid"
    /\ \/ /\ completed_polygons \in Collections(MaxFold)
          /\ subject_polygon = <<>>
          /\ clip_poly = <<>>
          /\ cpc = "idle"
       \/ /\ completed_polygons = <<Completed(RingA), Completed(RingB)>>
          /\ subject_polygon \in Subjects
          /\ clip_poly \in Clips
          /\ cpc = "start"

NextEngine ==
    \/ NextClip
    \/ cpc \in {"idle", "done"} /\ NextFold

SpecEngine == InitEngine /\ [][NextEngine]_vars

----------------------------------------------------------------------------
(* Properties *)

Rings(polys) == [k \in 1..Len(polys) |-> polys[k].points]

(* Every cell into which the ring's coordinate lines cut the rectangle *)
CellsWithin(rect, ring) ==
    LET xs == {x \in {p[1] : p \in Range(ring)} : rect.left < x /\ x < rect.right}
                \cup {rect.left, rect.right}
        ys == {y \in {p[2] : p \in Range(ring)} : rect.top < y /\ y < rect.bottom}
                \cup {rect.top, rect.bottom}
    IN  {Rect(cx[1], cy[1], cx[2], cy[2]) : cx \in Adjacent(xs), cy \in Adjacent(ys)}

CellInside(c, ring) == pointInPolygon(c.left + c.right, c.top + c.bottom, ring)

RectFullyInside(rect, ring) == \A c \in CellsWithin(rect, ring) : CellInside(c, ring)

RectOverlaps(rect, ring) == \E c \in CellsWithin(rect, ring) : CellInside(c, ring)

(* The unit squares covered by a set of rectangles, named by their lower corner *)
UnitCells(rs) ==
    UNION {{<<x, y>> : x \in r.left..(r.right - 1), y \in r.top..(r.bottom - 1)} : r \in rs}

NeedTwo == "Need at least two polygons to calculate intersection"

(* C1: with fewer than 2 completed polygons compute_all_polygons_intersection
   returns the empty list, and calculate_intersection reports the "need at
   least two polygons" notice, returns normally and leaves the polygon
   collection as it was. *)
C1_FewerThanTwo ==
    [][ Len(completed_polygons) < 2 =>
          /\ compute_all_polygons_intersection_run(completed_polygons).ret = {}
          /\ calculate_intersection =>
                /\ notice' = NeedTwo
                /\ ret' = "None"
                /\ completed_polygons' = completed_polygons ]_vars

C1_Witness ==
    /\ Len(completed_polygons) = 1
    /\ notice = NeedTwo

(* C2: the fold stops at the first polygon that leaves the running set empty:
   that polygon is the last one folded in and the result is empty.  For the
   collection [A, B, C] the result is empty and the fold ends at C (index 2). *)
C2_FoldStopsAtEmpty ==
    /\ \A k \in DOMAIN trace :
          trace[k].rects = {} => (k = Len(trace) /\ rects = {})
    /\ \A k \in DOMAIN trace : trace[k].index = k
    /\ (Rings(completed_polygons) = <<RingA, RingB, RingC>> /\ trace # <<>>) =>
          /\ rects = {}
          /\ Len(trace) = 2
          /\ trace[2].index = 2 /\ trace[2].rects = {}
          /\ trace[1].rects # {}

C2_Witness ==
    /\ Len(completed_polygons) = 3
    /\ Len(trace) = 1
    /\ trace[1].rects = {}

(* C3 as stated: every rectangle of the result lies fully inside every one of
   the input polygons. *)
C3_Original ==
    \A rect \in rects : \A k \in DOMAIN completed_polygons :
        RectFullyInside(rect, completed_polygons[k].points)

(* C3 as amended: every rectangle of the result lies fully inside the first
   two polygons, and has a part inside each polygon folded in later. *)
C3_InsideFirstTwoOverlapsRest ==
    \A rect \in rects : \A k \in DOMAIN completed_polygons :
        IF k <= 2 THEN RectFullyInside(rect, completed_polygons[k].points)
                  ELSE RectOverlaps(rect, completed_polygons[k].points)

C3_Witness ==
    /\ Len(completed_polygons) = 3
    /\ \E rect \in rects : ~RectFullyInside(rect, completed_polygons[3].points)

(* C4: for the squares A and B the result is non-empty and its rectangles
   cover exactly the square [2,4]x[2,4], of area 4. *)
C4_SquareTwoToFour ==
    (Rings(completed_polygons) = <<RingA, RingB>> /\ trace # <<>>) =>
        /\ rects # {}
        /\ UnitCells(rects) = (2..3) \X (2..3)
        /\ Cardinality(UnitCells(rects)) = 4

C4_Witness ==
    /\ Rings(completed_polygons) = <<RingA, RingB>>
    /\ trace # <<>>
    /\ rects # {}

BoundingBox(ring) ==
    Rect(SetMin({p[1] : p \in Range(ring)}), SetMin({p[2] : p \in Range(ring)}),
         SetMax({p[1] : p \in Range(ring)}), SetMax({p[2] : p \in Range(ring)}))

IsRectangle(ring) ==
    /\ Len(ring) = 4
    /\ LET b == BoundingBox(ring)
       IN  /\ b.left < b.right /\ b.top < b.bottom
           /\ Range(ring) = Range(RectAsPolygon(b))
           /\ \A i \in 1..4 : is_isothetic_direction(ring[i], ring[(i % 4) + 1])

(* The rectangle common to two bounding boxes; it has area when its sides  *)
(* are in order                                                            *)
CommonBox(a, b) ==
    Rect(Max2(a.left, b.left), Max2(a.top, b.top),
         Min2(a.right, b.right), Min2(a.bottom, b.bottom))

BoxInside(a, b) ==
    /\ b.left <= a.left /\ a.right <= b.right
    /\ b.top <= a.top /\ a.bottom <= b.bottom

PartialOverlap(a, b) ==
    /\ CommonBox(a, b).left < CommonBox(a, b).right
    /\ CommonBox(a, b).top < CommonBox(a, b).bottom
    /\ ~BoxInside(a, b)
    /\ ~BoxInside(b, a)

Rotations(s) ==
    {[k \in 1..Len(s) |-> s[((k + d - 1) % Len(s)) + 1]] : d \in 0..(Len(s) - 1)}

(* C5: for a rectangle subject and a rectangle clip polygon that overlap
   partially, clip_polygon returns a closed ring around their common
   rectangle, not the empty list. *)
C5_ClipIsExactIntersection ==
    (/\ cpc = "done"
     /\ IsRectangle(subject_polygon) /\ IsRectangle(clip_poly)
     /\ PartialOverlap(BoundingBox(subject_polygon), BoundingBox(clip_poly))) =>
        /\ cret # <<>>
        /\ cret[1] = cret[Len(cret)]
        /\ Range(cret) =
             Range(RectAsPolygon(CommonBox(BoundingBox(subject_polygon),
                                           BoundingBox(clip_poly))))

(* C6: for a rectangle subject lying inside a convex clip polygon, clip rings
   with a collinear vertex included, clip_polygon returns the subject's
   vertices, rotated and with the first one repeated at the end. *)
C6_InsideRectangleUnchanged ==
    (/\ cpc = "done"
     /\ IsRectangle(subject_polygon)
     /\ Len(clip_poly) >= 3
     /\ BoxInside(BoundingBox(subject_polygon), BoundingBox(clip_poly))) =>
        \E r \in Rotations(subject_polygon) : cret = Append(r, r[1])

(* C7 as stated: once the output list has fewer than 3 vertices after a clip
   edge, clip_polygon returns the empty result at once and processes no
   further clip edge. *)
C7_Original ==
    [][ (cpc = "loop" /\ ci >= 1 /\ Len(output_list) < 3) =>
            (cpc' = "done" /\ cret' = <<>> /\ ci' = ci) ]_vars

(* C7 as amended: every clip edge is processed, whatever the length of the
   output list after the edges before it; the empty result is returned only
   after the last clip edge, exactly when the output list then has fewer than
   3 vertices. *)
C7_AllEdgesProcessed ==
    [][ cpc = "loop" =>
          IF ci < Len(clip_poly)
          THEN cpc' = "loop" /\ ci' = ci + 1
          ELSE cpc' = "done" /\ ((cret' = <<>>) <=> (Len(output_list) < 3)) ]_vars

C7_Witness ==
    /\ cpc = "done"
    /\ ci = Len(clip_poly)
    /\ ci >= 3
    /\ Len(input_list) < 3
    /\ cret = <<>>

(* C8: every ring stored in completed_polygons has at least 3 vertices. *)
C8_AtLeastThreeVertices ==
    \A k \in DOMAIN completed_polygons : Len(completed_polygons[k].points) >= 3

(* C9: every edge of every ring stored in completed_polygons is axis-aligned,
   the edge from the last vertex back to the first included. *)
C9_AxisAlignedEdges ==
    \A k \in DOMAIN completed_polygons :
        LET ring == completed_polygons[k].points
        IN  \A i \in DOMAIN ring :
                is_isothetic_direction(ring[i], ring[(i % Len(ring)) + 1])

(* C10: the vertices of every ring stored in completed_polygons are pairwise
   distinct. *)
C10_DistinctVertices ==
    \A k \in DOMAIN completed_polygons :
        LET ring == completed_polygons[k].points
        IN  \A i, j \in DOMAIN ring : i # j => ring[i] # ring[j]

(* A step from a to b that is neither horizontal nor vertical: both        *)
(* coordinates differ by at least the tolerance                            *)
DiagonalStep(a, b) == Abs(a[1] - b[1]) >= Eps /\ Abs(a[2] - b[2]) >= Eps

(* C11: in both views, add_polygon_point with a candidate that differs from
   the last authored vertex by at least the tolerance in x and in y returns
   False and leaves polygon_points, the point markers and completed_polygons
   unchanged; with no vertex authored yet any candidate is accepted and
   becomes the first vertex. *)
C11_DiagonalStepRejected ==
    [][ \A p \in CandidatePoints \cup CandidatePointsMain :
          (\/ view = "grid" /\ add_polygon_point(p[1], p[2])
           \/ view = "main" /\ main_add_polygon_point(p[1], p[2])) =>
             IF polygon_points = <<>>
             THEN /\ ret' = "True"
                  /\ polygon_points' = <<p>>
                  /\ Len(point_items') = 1
             ELSE DiagonalStep(polygon_points[Len(polygon_points)], p) =>
                     /\ ret' = "False"
                     /\ polygon_points' = polygon_points
                     /\ point_items' = point_items
                     /\ completed_polygons' = completed_polygons ]_vars

(* A diagonal candidate has just been turned down by the view of main.py:  *)
(* with a single vertex authored nothing else makes it return False        *)
C11_Witness ==
    /\ view = "main"
    /\ ret = "False"
    /\ Len(polygon_points) = 1
    /\ \E p \in CandidatePointsMain : DiagonalStep(polygon_points[1], p)

NeedThree == "Polygon must have at least 3 points"

NeedClosed == "Polygon must be closed by selecting the starting point"

(* The last point lies further than the tolerance from the first *)
AwayFromStart(points) ==
    \/ Abs(points[Len(points)][1] - points[1][1]) > Eps
    \/ Abs(points[Len(points)][2] - points[1][2]) > Eps

(* C12: finalize_polygon of grid.py called with fewer than 3 authored points,
   or with a last point that does not coincide with the first, returns
   normally with a notice and leaves polygon_points, the point markers, the
   in-progress polygon and completed_polygons unchanged. *)
C12_FinalizeRejected ==
    [][ (/\ view = "grid"
         /\ finalize_polygon
         /\ (Len(polygon_points) < 3 \/ AwayFromStart(polygon_points))) =>
            /\ notice' = IF Len(polygon_points) < 3 THEN NeedThree ELSE NeedClosed
            /\ ret' = "None"
            /\ polygon_points' = polygon_points
            /\ point_items' = point_items
            /\ current_polygon' = current_polygon
            /\ completed_polygons' = completed_polygons ]_vars

C12_Witness ==
    /\ view = "grid"
    /\ notice = NeedClosed
    /\ Len(polygon_points) >= 3
    /\ AwayFromStart(polygon_points)

(* Some edge of the ring, the one from the last vertex back to the first   *)
(* included, is a diagonal step                                            *)
HasDiagonalEdge(ring) ==
    \E i \in 1..Len(ring) : DiagonalStep(ring[i], ring[(i % Len(ring)) + 1])

(* C13: is_valid_isothetic_polygon returns False for every vertex ring with
   at least one edge, between consecutive vertices or from the last vertex
   back to the first, whose x-difference and y-difference are both at least
   the tolerance. *)
C13_DiagonalRingInvalid ==
    [][ (main_is_valid_isothetic_polygon /\ HasDiagonalEdge(polygon_points)) =>
            ret' = "False" ]_vars

(* The call has returned False for a ring long enough to be valid whose    *)
(* only diagonal edge is the one back to the first vertex                  *)
C13_Witness ==
    /\ ret = "False"
    /\ Len(polygon_points) >= 4
    /\ DiagonalStep(polygon_points[Len(polygon_points)], polygon_points[1])
    /\ \A i \in 1..(Len(polygon_points) - 1) :
          ~DiagonalStep(polygon_points[i], polygon_points[i + 1])

(* s with its first two elements exchanged *)
SwapFirstTwo(s) == <<s[2], s[1]>> \o SubSeq(s, 3, Len(s))

(* C14: the pairwise grid intersection is commutative: the running set the
   fold starts from, the grid intersection of polygons 0 and 1, is the set
   of rectangles the engine returns for the same two polygons in the other
   order. *)
C14_PairCommutative ==
    (Len(completed_polygons) >= 2 /\ trace # <<>>) =>
        /\ trace[1].rects =
             compute_all_polygons_intersection_run(
                 SubSeq(SwapFirstTwo(completed_polygons), 1, 2)).ret
        /\ grid_based_intersection_qt(completed_polygons[1].points,
                                      completed_polygons[2].points)
             = grid_based_intersection_qt(completed_polygons[2].points,
                                          completed_polygons[1].points)

(* The engine has run on two different polygons that overlap *)
C14_Witness ==
    /\ Len(completed_polygons) = 2
    /\ completed_polygons[1].points # completed_polygons[2].points
    /\ trace # <<>>
    /\ rects # {}

(* Twice the signed area of a ring, by the shoelace sum from edge i on *)
RECURSIVE Shoelace(_, _)
Shoelace(ring, i) ==
    IF i > Len(ring) THEN 0
    ELSE LET a == ring[i]
             b == ring[(i % Len(ring)) + 1]
         IN  a[1] * b[2] - b[1] * a[2] + Shoelace(ring, i + 1)

RingArea(ring) == Abs(Shoelace(ring, 1)) \div 2

InteriorDisjoint(rs) ==
    \A r, q \in rs : r # q => UnitCells({r}) \cap UnitCells({q}) = {}

(* C15: for a polygon P with vertices at integer grid coordinates, the grid
   intersection of P with itself is a set of rectangles with pairwise
   disjoint interiors whose union has the area of P. *)
C15_SelfIntersectionArea ==
    (/\ Len(completed_polygons) = 2
     /\ completed_polygons[1].points = completed_polygons[2].points
     /\ Len(completed_polygons[1].points) >= 3
     /\ trace # <<>>) =>
        /\ InteriorDisjoint(rects)
        /\ Cardinality(UnitCells(rects)) = RingArea(completed_polygons[1].points)

(* The engine has run on the L-shaped polygon paired with itself and has   *)
(* returned more than one rectangle                                        *)
C15_Witness ==
    /\ Rings(completed_polygons) = <<RingL, RingL>>
    /\ trace # <<>>
    /\ Cardinality(rects) > 1

(* C16: a ring stored in completed_polygons keeps its place and its vertex
   list through every add_polygon_point, remove_last_point, finalize_polygon
   and calculate_intersection; only remove_polygon called with no polygon in
   progress, or import_polygons, takes a ring out of the collection. *)
C16_CompletedRingImmutable ==
    [][ (/\ ~(remove_polygon /\ polygon_points = <<>>)
         /\ ~(\E file \in ImportFiles : import_polygons(file))) =>
            \A k \in DOMAIN completed_polygons :
                /\ k \in DOMAIN completed_polygons'
                /\ completed_polygons'[k].points = completed_polygons[k].points ]_vars

(* Points have been authored, and a finalize attempt turned down, with a   *)
(* ring already stored                                                     *)
C16_Witness ==
    /\ completed_polygons # <<>>
    /\ polygon_points # <<>>
    /\ notice = NeedThree

(* C17: the engine operations leave their inputs as they were: every step of
   clip_polygon leaves the subject and the clip vertex lists unchanged, and
   compute_all_polygons_intersection leaves completed_polygons, the
   in-progress polygon_points and the stored intersection_polygons
   unchanged. *)
C17_EngineKeepsInputs ==
    [][ /\ (clip_start \/ clip_edge \/ clip_return) =>
              /\ subject_polygon' = subject_polygon
              /\ clip_poly' = clip_poly
        /\ compute_all_polygons_intersection =>
              /\ completed_polygons' = completed_polygons
              /\ polygon_points' = polygon_points
              /\ intersection_polygons' = intersection_polygons ]_vars

(* clip_polygon has returned a ring, and the fold has run and returned     *)
(* rectangles in a view that has an intersection stored                    *)
C17_Witness ==
    /\ cpc = "done"
    /\ cret # <<>>
    /\ intersection_polygons # {}
    /\ trace # <<>>
    /\ rects # {}

(* The rings of a file as import_polygons loads them *)
FileRings(file) == [k \in 1..Len(file.polygons) |-> ImportRing(file.polygons[k])]

(* C18: after an import_polygons that returns normally, completed_polygons
   holds exactly the polygons of the file, in file order, none of the
   polygons completed before is left, and the in-progress polygon is empty:
   no points, no markers, no item. *)
C18_ImportReplaces ==
    [][ \A file \in ImportFiles :
          (import_polygons(file) /\ ret' = "None") =>
             /\ Rings(completed_polygons') = FileRings(file)
             /\ polygon_points' = <<>>
             /\ point_items' = <<>>
             /\ current_polygon' = None ]_vars

(* The file with two squares has been imported *)
C18_Witness ==
    /\ notice = "Imported polygons"
    /\ Len(completed_polygons) = 2
    /\ Rings(completed_polygons) = <<ImportRing(FileSquare), ImportRing(FileSquare2)>>
    /\ polygon_points = <<>>

(* C19: a non-empty ring returned by clip_polygon is explicitly closed: its
   last vertex equals its first, and the output list it was made from, the
   ring before the closing vertex is looked at, has at least 3 vertices. *)
C19_ClipResultClosed ==
    (cpc = "done" /\ cret # <<>>) =>
        /\ cret[Len(cret)] = cret[1]
        /\ Len(output_list) >= 3
        /\ \/ cret = output_list
           \/ cret = Append(output_list, output_list[1])

(* clip_polygon has returned a ring *)
C19_Witness ==
    /\ cpc = "done"
    /\ ci = Len(clip_poly)
    /\ Len(cret) >= 4
    /\ cret[Len(cret)] = cret[1]
    /\ cret # output_list

(* GridIntersection(polygons[0], polygons[1]) *)
FirstPair(polys) == grid_based_intersection_qt(polys[1].points, polys[2].points)

(* C20: at the fold step for the polygon at index i >= 2 the running set
   becomes the set of its rectangles whose grid intersection, as 4-vertex
   rings, with that polygon is non-empty, each kept whole; so the result is
   a subset of the grid intersection of polygons 0 and 1, and is equal to it
   for a collection of two polygons. *)
C20_FoldKeepsWholeRectangles ==
    trace # <<>> =>
        /\ trace[1].rects = FirstPair(completed_polygons)
        /\ \A k \in 2..Len(trace) :
              trace[k].rects =
                 {rect \in trace[k - 1].rects :
                     grid_based_intersection_qt(
                         RectAsPolygon(rect),
                         completed_polygons[trace[k].index + 1].points) # {}}
        /\ rects \subseteq FirstPair(completed_polygons)
        /\ Len(completed_polygons) = 2 => rects = FirstPair(completed_polygons)

(* A third polygon has been folded in and has kept some rectangles of the  *)
(* running set and dropped others                                          *)
C20_Witness ==
    /\ Len(completed_polygons) = 3
    /\ Len(trace) = 2
    /\ rects # {}
    /\ rects # trace[1].rects
    /\ rects = trace[2].rects

(* C21: a finalize_polygon of grid.py that passes its checks, at least 3
   authored points and the last one on the first, appends exactly one ring
   at the end of completed_polygons, the authored points without the closing
   vertex, and leaves no points, no markers and no in-progress item. *)
C21_FinalizeAppendsRing ==
    [][ (/\ view = "grid"
         /\ finalize_polygon
         /\ Len(polygon_points) >= 3
         /\ ~AwayFromStart(polygon_points)) =>
            /\ Len(completed_polygons') = Len(completed_polygons) + 1
            /\ SubSeq(completed_polygons', 1, Len(completed_polygons))
                 = completed_polygons
            /\ completed_polygons'[Len(completed_polygons')].points
                 = SubSeq(polygon_points, 1, Len(polygon_points) - 1)
            /\ polygon_points' = <<>>
            /\ point_items' = <<>>
            /\ current_polygon' = None ]_vars

(* A ring of three vertices drawn over the candidate points, which no     *)
(* import file holds, has been finalized from four authored points         *)
C21_Witness ==
    /\ view = "grid"
    /\ Len(completed_polygons) = 1
    /\ Len(completed_polygons[1].points) = 3
    /\ <<0, 4>> \in Range(completed_polygons[1].points)
    /\ polygon_points = <<>>
    /\ point_items = <<>>
    /\ current_polygon = None

(* The candidate is a closing one: at least 3 vertices exist, it is in line
   with the last of them and within the tolerance of the first in both
   coordinates *)
ClosingCandidate(points, p) ==
    /\ Len(points) >= 3
    /\ (\/ Abs(points[Len(points)][1] - p[1]) < Eps
        \/ Abs(points[Len(points)][2] - p[2]) < Eps)
    /\ Abs(points[1][1] - p[1]) < Eps
    /\ Abs(points[1][2] - p[2]) < Eps

(* The step finalizes the authored points as they are *)
FinalizedAsIs ==
    /\ ret' = "True"
    /\ Len(completed_polygons') = Len(completed_polygons) + 1
    /\ SubSeq(completed_polygons', 1, Len(completed_polygons)) = completed_polygons
    /\ completed_polygons'[Len(completed_polygons')].points = polygon_points
    /\ polygon_points' = <<>>
    /\ point_items' = <<>>
    /\ current_polygon' = None

(* The step returns False and changes none of the polygon fields *)
RefusedUnchanged ==
    /\ ret' = "False"
    /\ polygon_points' = polygon_points
    /\ point_items' = point_items
    /\ current_polygon' = current_polygon
    /\ completed_polygons' = completed_polygons

(* C22 as stated: in main.py a closing candidate is never appended; with at
   least 4 vertices it finalizes the polygon with exactly the existing
   vertices and authoring starts again from empty, with exactly 3 the call
   returns False and nothing changes. *)
C22_Original ==
    [][ \A p \in CandidatePointsMain :
          (/\ view = "main"
           /\ main_add_polygon_point(p[1], p[2])
           /\ ClosingCandidate(polygon_points, p)) =>
              /\ polygon_points' # Append(polygon_points, p)
              /\ IF Len(polygon_points) >= 4 THEN FinalizedAsIs
                                             ELSE RefusedUnchanged ]_vars

(* C22 as amended: in main.py a closing candidate is never appended; with at
   least 4 vertices whose edges, the one from the last vertex back to the
   first included, are all axis-aligned it finalizes the polygon with
   exactly the existing vertices and authoring starts again from empty;
   with exactly 3 vertices, or with an edge back to the first vertex that is
   not axis-aligned, the call returns False and nothing changes. *)
C22_ClosingCandidate ==
    [][ \A p \in CandidatePointsMain :
          (/\ view = "main"
           /\ main_add_polygon_point(p[1], p[2])
           /\ ClosingCandidate(polygon_points, p)) =>
              /\ polygon_points' # Append(polygon_points, p)
              /\ IF Len(polygon_points) >= 4 /\ ~HasDiagonalEdge(polygon_points)
                 THEN FinalizedAsIs
                 ELSE RefusedUnchanged ]_vars

(* A closing candidate has finalized four vertices in the view of main.py, *)
(* where nothing else completes a polygon                                  *)
C22_Witness ==
    /\ view = "main"
    /\ ret = "True"
    /\ Len(completed_polygons) = 1
    /\ Len(completed_polygons[1].points) = 4
    /\ polygon_points = <<>>
    /\ current_polygon = None

(* C23: in both views remove_polygon removes one thing per call: with a
   polygon in progress it discards the in-progress points, markers and item
   and leaves completed_polygons as it is; otherwise it removes the most
   recently added completed polygon and nothing else; with neither it
   changes nothing. *)
C23_RemoveOneThing ==
    [][ (\/ view = "grid" /\ remove_polygon
         \/ view = "main" /\ main_remove_polygon) =>
            IF polygon_points # <<>>
            THEN /\ polygon_points' = <<>>
                 /\ point_items' = <<>>
                 /\ current_polygon' = None
                 /\ completed_polygons' = completed_polygons
            ELSE /\ polygon_points' = polygon_points
                 /\ point_items' = point_items
                 /\ current_polygon' = current_polygon
                 /\ IF completed_polygons # <<>>
                    THEN completed_polygons' =
                            SubSeq(completed_polygons, 1, Len(completed_polygons) - 1)
                    ELSE completed_polygons' = completed_polygons ]_vars

(* One completed polygon is left beside an intersection that was           *)
(* calculated, which takes two: the other has been removed since           *)
C23_Witness ==
    /\ Len(completed_polygons) = 1
    /\ polygon_points = <<>>
    /\ \E item \in intersection_polygons : item.kind = "rect"
    /\ notice = "none"

(* The clip edge (A, B) processed last, once ci edges have been *)
LastEdgeA == clip_poly[ci]

LastEdgeB == clip_poly[(ci % Len(clip_poly)) + 1]

InsideLastEdge(v) == is_inside(v, LastEdgeA, LastEdgeB, clip_poly)

(* The point where the input edge (P, Q) meets the segment of the last     *)
(* clip edge, in a sequence that is empty when it does not                 *)
MeetsLastEdge(P, Q) ==
    LET x == compute_intersection(P, Q, LastEdgeA, LastEdgeB)
    IN  IF x = NoPoint THEN <<>> ELSE <<x>>

(* What the claim lets the input edge starting at position j contribute *)
Contribution(j) ==
    LET P == input_list[j]
        Q == input_list[(j % Len(input_list)) + 1]
    IN  CASE InsideLastEdge(P) /\ InsideLastEdge(Q) -> <<Q>>
          [] InsideLastEdge(P) /\ ~InsideLastEdge(Q) -> MeetsLastEdge(P, Q)
          [] ~InsideLastEdge(P) /\ InsideLastEdge(Q) -> MeetsLastEdge(P, Q) \o <<Q>>
          [] ~InsideLastEdge(P) /\ ~InsideLastEdge(Q) -> <<>>

RECURSIVE ContributionsFrom(_)
ContributionsFrom(j) ==
    IF j > Len(input_list) THEN <<>>
    ELSE Contribution(j) \o ContributionsFrom(j + 1)

(* C24: after each clip edge (A, B) of clip_polygon every vertex of the
   output list is a vertex of that step's input list classified inside with
   respect to (A, B), or the point where an input edge meets the segment
   (A, B); an input edge with both endpoints outside contributes nothing,
   and an edge entering (P outside, Q inside) contributes its intersection
   point, when there is one, and then Q, in that order: the output list is
   these contributions in input order, less the points outside the clip
   bounds and the consecutive repeats. *)
C24_EdgeOutput ==
    (cpc \in {"loop", "done"} /\ ci >= 1) =>
        /\ \A k \in DOMAIN output_list :
              \/ \E j \in DOMAIN input_list :
                    input_list[j] = output_list[k] /\ InsideLastEdge(input_list[j])
              \/ \E j \in DOMAIN input_list :
                    MeetsLastEdge(input_list[j],
                                  input_list[(j % Len(input_list)) + 1])
                       = <<output_list[k]>>
        /\ output_list = FilterOutput(ContributionsFrom(1), clip_poly)

(* A clip edge has been processed for which one input edge enters the clip *)
(* polygon through a point other than its end, another has both endpoints  *)
(* outside, and the output list holds the entry point followed by the end  *)
C24_Witness ==
    /\ cpc = "loop"
    /\ ci >= 1
    /\ \E j \in DOMAIN input_list :
          LET P == input_list[j]
              Q == input_list[(j % Len(input_list)) + 1]
          IN  /\ ~InsideLastEdge(P) /\ InsideLastEdge(Q)
              /\ MeetsLastEdge(P, Q) # <<>>
              /\ MeetsLastEdge(P, Q) # <<Q>>
              /\ \E k \in 1..(Len(output_list) - 1) :
                    <<output_list[k]>> = MeetsLastEdge(P, Q) /\ output_list[k + 1] = Q
    /\ \E j \in DOMAIN input_list :
          /\ ~InsideLastEdge(input_list[j])
          /\ ~InsideLastEdge(input_list[(j % Len(input_list)) + 1])

(* C25: neither a calculate_intersection turned down for fewer than 2
   completed polygons nor a remove_polygon changes intersection_polygons:
   an intersection stored by an earlier calculation or import stays stored
   when the polygons it was computed from are gone. *)
C25_StoredIntersectionStays ==
    [][ (\/ remove_polygon
         \/ calculate_intersection /\ Len(completed_polygons) < 2) =>
            intersection_polygons' = intersection_polygons ]_vars

(* A calculation has just been turned down for lack of polygons while the  *)
(* rectangles of an earlier calculation, which took two, are still stored  *)
C25_Witness ==
    /\ Len(completed_polygons) < 2
    /\ notice = NeedTwo
    /\ \E item \in intersection_polygons : item.kind = "rect"

(* A ring of a file that the import turns down: fewer than 3 points, or an
   edge, the one from the last point to the first included, with both
   differences at least the tolerance *)
OffendingRing(poly_points) ==
    \/ Len(poly_points) < 3
    \/ HasDiagonalEdge(ImportRing(poly_points))

Offending(file) == {k \in 1..Len(file.polygons) : OffendingRing(file.polygons[k])}

(* C26: an import_polygons that raises ValueError for a polygon of the file
   with fewer than 3 points or a non-isothetic edge does not restore the
   state: the polygons completed before, the stored intersection and the
   in-progress polygon are gone, and completed_polygons holds exactly the
   polygons of the file that precede the offending one; a file that is not
   valid JSON or has no 'polygons' key raises with the state as it was. *)
C26_FailedImportState ==
    [][ \A file \in ImportFiles :
          import_polygons(file) =>
             IF ~file.json_ok \/ ~file.has_polygons
             THEN /\ ret' = "ValueError"
                  /\ completed_polygons' = completed_polygons
                  /\ intersection_polygons' = intersection_polygons
                  /\ polygon_points' = polygon_points
                  /\ point_items' = point_items
                  /\ current_polygon' = current_polygon
             ELSE Offending(file) # {} =>
                     /\ ret' = "ValueError"
                     /\ Rings(completed_polygons') =
                          SubSeq(FileRings(file), 1, SetMin(Offending(file)) - 1)
                     /\ intersection_polygons' = {}
                     /\ polygon_points' = <<>>
                     /\ point_items' = <<>>
                     /\ current_polygon' = None ]_vars

(* The import of the file whose second polygon has two points has raised   *)
(* and left the first polygon of the file, and no stored intersection      *)
C26_Witness ==
    /\ ret = "ValueError"
    /\ Rings(completed_polygons) = <<ImportRing(FileSquare)>>
    /\ intersection_polygons = {}
    /\ polygon_points = <<>>
    /\ current_polygon = None

====
